---- MODULE Spec2Model ----
(***************************************************************************)
(* epub2txt: package location, package parsing, path resolution and        *)
(* chapter text extraction, modelled from the Rust sources.                *)
(*                                                                         *)
(* Strings.  A Rust string that is only split and joined at '/' is         *)
(* modelled by the sequence of its '/'-separated pieces (what              *)
(* str::split('/') yields): "" is <<"">>, "a/b" is <<"a","b">>, "/a" is    *)
(* <<"","a">>.  The sequence is never empty and the map is a bijection,    *)
(* so rfind('/'), truncate, push('/') and push_str are exact on it.        *)
(* Identifiers that are searched for a substring (str::contains) are       *)
(* sequences of one-character strings.                                     *)
(***************************************************************************)
EXTENDS Integers, Sequences, FiniteSets, TLC

VARIABLES
    op,          \* the operation that produced the current results
    opf_path,    \* descriptor path handed to the operation (pieces)
    items,       \* <manifest> items of the descriptor, in document order
    itemrefs,    \* <spine> itemrefs of the descriptor, in document order
    hrefs,       \* hrefs returned by spine resolution, in order
    chapters,    \* chapter paths returned, in order
    error,       \* "none" or the error the operation returned
    rel,         \* relative reference handed to a path resolver
    resolved,    \* path returned by a path resolver
    container,   \* token stream of META-INF/container.xml
    located,     \* result of the package locator
    stack,       \* chapter extraction: open elements, innermost last
    text,        \* chapter extraction: accumulated text
    prevText,    \* chapter extraction: text before the last visited node
    lastNode,    \* chapter extraction: the node visited last
    visited,     \* chapter extraction: number of nodes visited
    prevStack,   \* chapter extraction: open elements before the last token
    selected,    \* chapter extraction: first element of each title tag
    lastTitle,   \* chapter extraction: last text directly inside a title-tag
    strays,      \* chapter extraction: close tags met that match no open element
    head,        \* chapter: text of the <title> element of the document head
    raw,         \* chapter: text handed to remove_original_title
    title,       \* chapter: title handed to remove_original_title
    once,        \* chapter: text returned by the first call
    content,     \* chapter: text returned by the latest call
    again,       \* chapter: number of calls of remove_original_title made
    metadata,    \* metadata: the <metadata> of the descriptor
    toml,        \* metadata: the document written to metadata.toml
    archive,     \* run: what the archive holds
    pc,          \* run: position in the running function
    outputs,     \* run: directories and files created so far
    index,       \* run: position of the loop in the chapter-path list
    reading,     \* run: archive entries open for reading
    opened,      \* run: archive entries opened so far, in order
    consumed,    \* run: archive entries read to their end
    vec,         \* run: chapters collected by the running function
    available,   \* run: chapters handed to the caller or written out
    failure,     \* run: "none" or the error the run returned
    failedAt     \* run: the chapter whose extraction failed, or 0

pkgVars == <<opf_path, items, itemrefs, hrefs, chapters, error>>
pathVars == <<rel, resolved>>
locVars == <<container, located>>
extVars ==
    <<stack, text, prevText, lastNode, visited, prevStack, selected, lastTitle,
      strays>>
chapVars == <<head, raw, title, once, content, again>>
metaVars == <<metadata, toml>>
runVars ==
    <<archive, pc, outputs, index, reading, opened, consumed, vec, available,
      failure, failedAt>>
vars == <<op, pkgVars, pathVars, locVars, extVars, chapVars, metaVars, runVars>>

----------------------------------------------------------------------------
(* Bounds of the model. *)

MaxItems == 2
MaxItemRefs == 2
MaxRelLen == 3
MaxEvents == 4
MaxNodes == 5
MaxDepth == 3
MaxStrays == 1
MaxTextLen == 5
MaxTitleLen == 2
MaxCalls == 2
MaxCreators == 2
MaxChapters == 2

----------------------------------------------------------------------------
(* Generic helpers. *)

Front(s) == SubSeq(s, 1, Len(s) - 1)

Last(s) == s[Len(s)]

SeqsUpTo(S, n) == UNION {[1..k -> S] : k \in 0..n}

\* str::contains(pat) on sequences of characters
Contains(s, pat) ==
    \E i \in 0..(Len(s) - Len(pat)) : SubSeq(s, i + 1, i + Len(pat)) = pat

COVER == <<"c", "o", "v", "e", "r">>
NAV == <<"n", "a", "v">>

----------------------------------------------------------------------------
(* Path resolution: utils.rs normalize_zip_path. *)

EMPTY == <<"">>

\* opf_path[..pos] when opf_path.rfind('/') is Some(pos), else the empty
\* string the result starts as
ZipBase(path) == IF Len(path) >= 2 THEN Front(path) ELSE EMPTY

\* one iteration of `for comp in rel.split('/')`
ZipStep(result, comp) ==
    CASE comp = ".." -> IF Len(result) >= 2 THEN Front(result) ELSE result
      [] comp \in {".", ""} -> result
      [] OTHER -> IF result = EMPTY THEN <<comp>> ELSE Append(result, comp)

RECURSIVE ZipFold(_, _)
ZipFold(result, comps) ==
    IF comps = <<>> THEN result
    ELSE ZipFold(ZipStep(result, Head(comps)), Tail(comps))

normalize_zip_path(path, r) == ZipFold(ZipBase(path), r)

----------------------------------------------------------------------------
(* Path resolution: chapter.rs href2path / normalize_path, with the        *)
(* std::path semantics of a Unix host.  A component is "/" (RootDir),      *)
(* "." (CurDir), ".." (ParentDir) or a name (Normal).                      *)

HasRoot(path) == Len(path) >= 2 /\ path[1] = ""

\* Path::components(): repeated separators and every "." but a leading one
\* are skipped; a leading '/' is RootDir
RECURSIVE PathComps(_, _)
PathComps(path, i) ==
    IF i > Len(path) THEN <<>>
    ELSE LET c == path[i]
             rest == PathComps(path, i + 1)
         IN  CASE c = "" -> rest
               [] c = "." -> IF i = 1 THEN <<".">> \o rest ELSE rest
               [] OTHER -> <<c>> \o rest

Components(path) ==
    IF HasRoot(path) THEN <<"/">> \o PathComps(path, 2) ELSE PathComps(path, 1)

\* Path::new(opf_path).parent().unwrap_or(""), for a descriptor path whose
\* last piece is a file name
OpfDir(path) == IF Len(path) >= 2 THEN Front(path) ELSE EMPTY

\* Path::join: an absolute href replaces the base, an empty base adds
\* nothing, otherwise the two are joined by one separator
PathJoin(base, href) ==
    IF HasRoot(href) \/ base = EMPTY THEN href ELSE base \o href

\* the body of `for component in path.components()`
NormStep(stk, c) ==
    CASE c = "." -> stk
      [] c = ".." -> IF stk # <<>> /\ Last(stk) # ".." THEN Front(stk)
                     ELSE Append(stk, c)
      [] OTHER -> Append(stk, c)

RECURSIVE NormFold(_, _)
NormFold(stk, comps) ==
    IF comps = <<>> THEN stk
    ELSE NormFold(NormStep(stk, Head(comps)), Tail(comps))

\* the PathBuf the stack folds into, as a string
PathString(stk) ==
    IF stk = <<>> THEN <<".">>
    ELSE IF Head(stk) = "/"
         THEN (IF Len(stk) = 1 THEN <<"", "">> ELSE <<"">> \o Tail(stk))
         ELSE stk

normalize_path(path) == PathString(NormFold(<<>>, Components(path)))

href2path1(path, href) == normalize_path(PathJoin(OpfDir(path), href))

href2path(hs, path) == [i \in 1..Len(hs) |-> href2path1(path, hs[i])]

----------------------------------------------------------------------------
(* Package parsing, metadata.rs + process.rs (serde descriptor).           *)
(* A map id -> href is a function whose domain is the set of its keys.     *)

XHTML == "application/xhtml+xml"

EmptyMap == [k \in {} |-> EMPTY]

\* HashMap::insert: a later pair with the same key replaces the earlier one
MapInsert(m, k, v) == [x \in DOMAIN m \cup {k} |-> IF x = k THEN v ELSE m[x]]

\* HashMap::remove: the map without the key
MapRemove(m, k) == [x \in DOMAIN m \ {k} |-> m[x]]

\* the filter of Manifest::into_map
KeepItem(item) == ~Contains(item.id, COVER) /\ item.media_type = XHTML

\* Manifest::into_map: filter, then collect (id, href) pairs into a map
RECURSIVE IntoMapFrom(_, _)
IntoMapFrom(m, its) ==
    IF its = <<>> THEN m
    ELSE LET it == Head(its)
         IN  IntoMapFrom(IF KeepItem(it) THEN MapInsert(m, it.id, it.href) ELSE m,
                         Tail(its))

into_map(its) == IntoMapFrom(EmptyMap, its)

\* a spine resolution that collects the hrefs last itemref first
RECURSIVE IntoHrefsReversed(_, _)
IntoHrefsReversed(refs, m) ==
    IF refs = <<>> THEN <<>>
    ELSE IF Head(refs) \in DOMAIN m
         THEN IntoHrefsReversed(Tail(refs), MapRemove(m, Head(refs)))
                  \o <<m[Head(refs)]>>
         ELSE IntoHrefsReversed(Tail(refs), m)

\* Spine::into_hrefs: filter_map over the itemrefs of id_href_map.remove(idref)
RECURSIVE into_hrefs(_, _)
into_hrefs(refs, m) ==
    IF refs = <<>> THEN <<>>
    ELSE IF Head(refs) \in DOMAIN m
         THEN <<m[Head(refs)]>> \o into_hrefs(Tail(refs), MapRemove(m, Head(refs)))
         ELSE into_hrefs(Tail(refs), m)

\* Package::from_opf: `items` and `itemrefs` are Vec fields without a serde
\* default, so a <manifest> or <spine> without children fails to deserialize
FromOpfOk(its, refs) == its # <<>> /\ refs # <<>>

\* the chapters of Epub::from_file
FromFileChapters(path, its, refs) ==
    LET spine_hrefs == into_hrefs(refs, into_map(its))
    IN  [i \in 1..Len(spine_hrefs) |-> normalize_zip_path(path, spine_hrefs[i])]

----------------------------------------------------------------------------
(* Package parsing, opf.rs (event parser).                                 *)

\* parse_manifest: every item of the manifest, as (id, href), then
\* `manifest.into_iter().collect()` into a HashMap
RECURSIVE CollectFrom(_, _)
CollectFrom(m, its) ==
    IF its = <<>> THEN m
    ELSE CollectFrom(MapInsert(m, Head(its).id, Head(its).href), Tail(its))

parse_manifest(its) == [i \in 1..Len(its) |-> <<its[i].id, its[i].href>>]

id_to_href(its) == CollectFrom(EmptyMap, its)

\* the filter of parse_spine (and of main.rs parse_opf)
KeepIdref(idref) == ~Contains(idref, NAV) /\ ~Contains(idref, COVER)

RECURSIVE parse_spine(_)
parse_spine(refs) ==
    IF refs = <<>> THEN <<>>
    ELSE (IF KeepIdref(Head(refs)) THEN <<Head(refs)>> ELSE <<>>)
         \o parse_spine(Tail(refs))

\* step 3 of parse_opf: the hrefs pushed before the loop ends or returns Err
RECURSIVE OpfLoop(_, _, _)
OpfLoop(ids, m, acc) ==
    IF ids = <<>> THEN [err |-> "none", paths |-> acc]
    ELSE IF Head(ids) \in DOMAIN m
         THEN OpfLoop(Tail(ids), m, Append(acc, m[Head(ids)]))
         ELSE [err |-> "MissingChapterReference", paths |-> <<>>]

parse_opf(its, refs) == OpfLoop(parse_spine(refs), id_to_href(its), <<>>)

----------------------------------------------------------------------------
(* Package parsing, main.rs (first version: fixed OEBPS/ prefix).          *)

\* manifest.iter().find(|(id, _)| id == idref): the first pair with the id
RECURSIVE FindHref(_, _)
FindHref(man, idref) ==
    IF man = <<>> THEN <<>>
    ELSE IF Head(man)[1] = idref THEN <<Head(man)[2]>>
         ELSE FindHref(Tail(man), idref)

\* format!("OEBPS/{}", href)
OebpsPath(href) == <<"OEBPS">> \o href

RECURSIVE get_chapter_files(_, _)
get_chapter_files(spine, man) ==
    IF spine = <<>> THEN <<>>
    ELSE LET f == FindHref(man, Head(spine))
         IN  (IF f = <<>> THEN <<>> ELSE <<OebpsPath(f[1])>>)
             \o get_chapter_files(Tail(spine), man)

----------------------------------------------------------------------------
(* Package locator.  container.xml is the sequence of events its tokenizer *)
(* yields: [kind, fp] with kind "rootfiles" (start tag), "end_rootfiles",  *)
(* "rootfile" (start or empty tag, fp its full-path attribute or "none"),  *)
(* "other" (any other event) and "error" (the tokenizer fails here).  The  *)
(* end of the sequence is the end of the document.                         *)

NotFound == [kind |-> "not_found", path |-> "none"]
Malformed == [kind |-> "malformed", path |-> "none"]
Found(fp) == [kind |-> "path", path |-> fp]

\* process.rs Epub::extract_opf_path: the loop over read_event_into
RECURSIVE extract_opf_path(_)
extract_opf_path(evs) ==
    IF evs = <<>> THEN NotFound
    ELSE LET e == Head(evs)
         IN  CASE e.kind = "error" -> Malformed
               [] e.kind = "rootfile" /\ e.fp # "none" -> Found(e.fp)
               [] OTHER -> extract_opf_path(Tail(evs))

\* opf.rs get_opf_path: the loop over the events, carrying
\* (opf_path, in_rootfiles)
RECURSIVE OpfPathLoop(_, _, _)
OpfPathLoop(evs, path, in_rootfiles) ==
    IF evs = <<>> THEN (IF path = "none" THEN NotFound ELSE Found(path))
    ELSE LET e == Head(evs)
         IN  CASE e.kind = "error" -> Malformed
               [] e.kind = "rootfiles" -> OpfPathLoop(Tail(evs), path, TRUE)
               [] e.kind = "rootfile" /\ in_rootfiles ->
                      OpfPathLoop(Tail(evs), e.fp, in_rootfiles)
               [] e.kind = "end_rootfiles" -> OpfPathLoop(Tail(evs), path, FALSE)
               [] OTHER -> OpfPathLoop(Tail(evs), path, in_rootfiles)

get_opf_path(evs) == OpfPathLoop(evs, "none", FALSE)

----------------------------------------------------------------------------
(* Tag classifier defaults, config.rs RawTags::default. *)

TitleTags == {"h1", "title"}
BlockTags == {"p", "div", "li", "ul", "section", "br"}
InlineTags == {"em", "span", "a", "strong", "code", "sub", "sup"}

----------------------------------------------------------------------------
(* Chapter text extraction, chapter.rs extract_text_from_node.  The parsed *)
(* document is walked in document order (inclusive_descendants of <body>); *)
(* a text is a sequence of words and whitespace characters.                *)

text_tags == {"p", "h1", "h2", "h3", "h4", "h5", "h6"}

IsSpace(c) == c \in {" ", "\n"}

RECURSIVE TrimStart(_)
TrimStart(t) ==
    IF t # <<>> /\ IsSpace(Head(t)) THEN TrimStart(Tail(t)) ELSE t

RECURSIVE TrimEnd(_)
TrimEnd(t) ==
    IF t # <<>> /\ IsSpace(Last(t)) THEN TrimEnd(Front(t)) ELSE t

\* str::trim
Trim(t) == TrimEnd(TrimStart(t))

\* is_parent_text_tag
is_parent_text_tag(stk) == stk # <<>> /\ Last(stk) \in text_tags

\* what visiting an element pushes onto the text
ElementText(tag) == IF tag \in text_tags THEN <<"\n">> ELSE <<>>

\* what visiting a text node pushes onto the text
TextContent(stk, t) == IF is_parent_text_tag(stk) THEN t ELSE Trim(t)

\* the title tags that occur in the documents of the model
SelectTags == {"h1"}

\* per title tag, the first element of that name (document.select(..).next()):
\* not met yet, open at a depth, or closed, and its text_contents so far
NoneSelected == [tag \in SelectTags |-> [state |-> "none", depth |-> 0, text |-> <<>>]]

\* an element opens at this depth: it is the first of its name or it is not
SelectOpen(sel, tag, depth) ==
    [g \in SelectTags |->
        IF g = tag /\ sel[g].state = "none"
        THEN [state |-> "open", depth |-> depth, text |-> <<>>]
        ELSE sel[g]]

\* NodeRef::text_contents: every text node below the element, verbatim
SelectText(sel, t) ==
    [g \in SelectTags |->
        IF sel[g].state = "open"
        THEN [sel[g] EXCEPT !.text = sel[g].text \o t]
        ELSE sel[g]]

\* the element open at this depth ends
SelectClose(sel, depth) ==
    [g \in SelectTags |->
        IF sel[g].state = "open" /\ sel[g].depth = depth
        THEN [sel[g] EXCEPT !.state = "closed"]
        ELSE sel[g]]

\* extract_text_from_selector; h is the text of the <title> of the head,
\* empty when the head has none
extract_text_from_selector(h, sel, tag) ==
    IF tag = "title" THEN Trim(h)
    ELSE IF tag \notin SelectTags \/ sel[tag].state = "none" THEN <<>>
    ELSE Trim(sel[tag].text)

title_tags == <<"title", "h1", "h2", "h3", "h4", "h5", "h6">>

\* the loop of extract_title from the i-th title tag on
RECURSIVE TitleLoop(_, _, _)
TitleLoop(h, sel, i) ==
    IF i > Len(title_tags) THEN <<>>
    ELSE LET trimmed_title == Trim(extract_text_from_selector(h, sel, title_tags[i]))
         IN  IF trimmed_title # <<>> THEN trimmed_title
             ELSE TitleLoop(h, sel, i + 1)

\* extract_title
extract_title(h, sel) == TitleLoop(h, sel, 1)

\* the number of whitespace atoms a text starts with
RECURSIVE LeadSpace(_)
LeadSpace(t) ==
    IF t # <<>> /\ IsSpace(Head(t)) THEN 1 + LeadSpace(Tail(t)) ELSE 0

\* the literal pat stands in t right after the first k atoms
StartsAt(t, pat, k) ==
    /\ k + Len(pat) <= Len(t)
    /\ SubSeq(t, k + 1, k + Len(pat)) = pat

\* the lengths the leading \s* of the pattern can take for the pattern to match
MatchStarts(t, pat) == {k \in 0..LeadSpace(t) : StartsAt(t, pat, k)}

\* Regex::replace of ^\s*TITLE\s* by "": the first match only, \s* greedy
RegexReplace(t, pat) ==
    IF MatchStarts(t, pat) = {} THEN t
    ELSE LET k == CHOOSE m \in MatchStarts(t, pat) :
                      \A n \in MatchStarts(t, pat) : n <= m
         IN  TrimStart(SubSeq(t, k + Len(pat) + 1, Len(t)))

\* a replacement by a pattern without the ^ anchor: the first occurrence of
\* the title anywhere in the text goes, with the whitespace after it
ReplaceAnywhere(t, ttl) ==
    LET at == {k \in 0..Len(t) : StartsAt(t, ttl, k)}
    IN  IF at = {} THEN TrimStart(t)
        ELSE LET k == CHOOSE m \in at : \A n \in at : m <= n
             IN  TrimStart(SubSeq(t, 1, k)
                           \o TrimStart(SubSeq(t, k + Len(ttl) + 1, Len(t))))

\* a replacement of every leading repetition of the title
RECURSIVE ReplaceEvery(_, _)
ReplaceEvery(t, ttl) ==
    IF ttl = <<>> \/ MatchStarts(t, ttl) = {} THEN TrimStart(t)
    ELSE ReplaceEvery(RegexReplace(t, ttl), ttl)

\* remove_original_title
remove_original_title(t, ttl) == TrimStart(RegexReplace(t, ttl))

----------------------------------------------------------------------------
(* Metadata serialization, metadata.rs Metadata::write.  An Option is a     *)
(* sequence of at most one value; a key of the TOML document holds <<>>     *)
(* while it is absent.                                                      *)

ROLE_MAP ==
    ("aut" :> "author") @@ ("edt" :> "editor") @@ ("trl" :> "translator")
        @@ ("ill" :> "illustrator")

\* a lookup that falls back to "author"
RoleKeyOrAuthor(role) ==
    IF role \in DOMAIN ROLE_MAP THEN ROLE_MAP[role] ELSE "author"

\* ROLE_MAP.get(role).unwrap_or("unknown")
role_key(role) ==
    IF role \in DOMAIN ROLE_MAP THEN ROLE_MAP[role] ELSE "unknown"

TomlKeys ==
    {"title", "author", "editor", "translator", "illustrator", "unknown",
     "language", "description", "subject"}

\* DocumentMut::new()
NewDocument == [k \in TomlKeys |-> <<>>]

\* an assignment that keeps the value a key already has
AssignOnce(d, key, val) ==
    IF d[key] = <<>> THEN [d EXCEPT ![key] = <<val>>] ELSE d

\* doc[key] = value(val)
Assign(d, key, val) == [d EXCEPT ![key] = <<val>>]

\* if let Some(v) = option { doc[key] = value(v) }
AssignSome(d, key, option) ==
    IF option # <<>> THEN Assign(d, key, option[1]) ELSE d

\* the body of the loop over the creators
WriteCreator(d, creator) ==
    IF creator.role # <<>>
    THEN Assign(d, role_key(creator.role[1]), creator.name)
    ELSE Assign(d, "author", creator.name)

\* for creator in &self.creators
RECURSIVE WriteCreators(_, _)
WriteCreators(d, creators) ==
    IF creators = <<>> THEN d
    ELSE WriteCreators(WriteCreator(d, Head(creators)), Tail(creators))

\* the subjects go into one array value
WriteSubjects(d, subjects) ==
    IF subjects # <<>> THEN [d EXCEPT !["subject"] = subjects] ELSE d

\* Metadata::write: the document written to metadata.toml
metadata_write(md) ==
    LET d1 == AssignSome(NewDocument, "title", md.title)
        d2 == WriteCreators(d1, md.creators)
        d3 == AssignSome(d2, "language", md.language)
        d4 == AssignSome(d3, "description", md.description)
    IN  WriteSubjects(d4, md.subjects)

----------------------------------------------------------------------------
(* One run over one archive.  An archive entry is "ok", "missing" (by_name  *)
(* finds no such entry) or "bad" (it cannot be read or parsed).             *)

\* the error a missing or an unparsable bootstrap file or descriptor ends in
ErrorOf(status) ==
    IF status = "missing" THEN "DescriptorNotFound" ELSE "MalformedXml"

\* what Epub::write creates before it turns to the chapters
WriteOutputs(meta, split, combine) ==
    (IF meta \/ split \/ combine THEN {"output_dir"} ELSE {})
        \cup (IF meta THEN {"metadata.toml"} ELSE {})
        \cup (IF split THEN {"chapters"} ELSE {})
        \cup (IF combine THEN {"total.txt"} ELSE {})

----------------------------------------------------------------------------
(* Inputs. *)

CH1 == <<"c", "1">>
CH2 == <<"c", "2">>
NAVID == <<"n", "a", "v">>
COVERID == <<"c", "o", "v", "e", "r", "1">>
Ids == {CH1, CH2, NAVID, COVERID}

MediaTypes == {XHTML, "image/jpeg"}

Hrefs == {<<"a.xhtml">>, <<"..", "b.xhtml">>, <<".", "Text", "c.xhtml">>}

Items == [id : Ids, href : Hrefs, media_type : MediaTypes]

\* manifests whose items have pairwise different hrefs
ItemSeqs ==
    {its \in SeqsUpTo(Items, MaxItems) :
        \A i, j \in 1..Len(its) : i # j => its[i].href # its[j].href}

RefSeqs == SeqsUpTo(Ids, MaxItemRefs)

OpfPaths == {<<"content.opf">>, <<"OEBPS", "content.opf">>,
             <<"OEBPS", "sub", "content.opf">>}

Pieces == {"..", ".", "", "Images", "x.jpg"}

Rels == SeqsUpTo(Pieces, MaxRelLen) \ {<<>>}

FullPaths == {"A.opf", "B.opf"}

Events ==
    [kind : {"rootfiles", "end_rootfiles", "other", "error"}, fp : {"none"}]
    \cup [kind : {"rootfile"}, fp : FullPaths \cup {"none"}]

EventSeqs == SeqsUpTo(Events, MaxEvents)

Tags == {"h1", "p", "em", "div"}

Texts == {<<"Title">>, <<"Hello", " ">>, <<"world">>, <<".">>,
          <<" ", "world", " ">>}

NoNode == [kind |-> "none", tag |-> "", text |-> <<>>]

PersonNames == {"Ann", "Bob"}

\* the opf:role of a creator: none, the four mapped codes, an unmapped code
Roles == {<<>>, <<"aut">>, <<"edt">>, <<"trl">>, <<"ill">>, <<"bkp">>}

Creators == [name : PersonNames, role : Roles]

Metadatas ==
    [title : {<<>>, <<"Book">>},
     creators : SeqsUpTo(Creators, MaxCreators),
     language : {<<>>, <<"en">>},
     description : {<<>>, <<"About">>},
     subjects : {<<>>, <<"Fiction">>}]

NoMetadata ==
    [title |-> <<>>, creators |-> <<>>, language |-> <<>>,
     description |-> <<>>, subjects |-> <<>>]

Statuses == {"ok", "missing", "bad"}

\* the chapter-path list is that of the descriptor: none without a descriptor
Archives ==
    {a \in [bootstrap : Statuses, descriptor : Statuses,
            entries : SeqsUpTo(Statuses, MaxChapters)] :
        a.descriptor # "ok" => a.entries = <<>>}

NoArchive == [bootstrap |-> "ok", descriptor |-> "ok", entries |-> <<>>]

\* close tags that may stand where no element of their name is open
StrayTags == {"div", "em"}

\* texts of the <title> of the document head; empty: no such element
HeadTitles == {<<>>, <<"Book">>}

\* characters of the texts and titles handed to remove_original_title
Chars == {"T", "x", " "}

RawTexts == SeqsUpTo(Chars, MaxTextLen)

\* extract_title returns trimmed titles only
Titles == {t \in SeqsUpTo(Chars, MaxTitleLen) : Trim(t) = t}

----------------------------------------------------------------------------
(* The state machine: one run of one operation from the idle state.        *)

Init ==
    /\ op = "idle"
    /\ opf_path = EMPTY
    /\ items = <<>>
    /\ itemrefs = <<>>
    /\ hrefs = <<>>
    /\ chapters = <<>>
    /\ error = "none"
    /\ rel = EMPTY
    /\ resolved = EMPTY
    /\ container = <<>>
    /\ located = NotFound
    /\ stack = <<>>
    /\ text = <<>>
    /\ prevText = <<>>
    /\ lastNode = NoNode
    /\ visited = 0
    /\ prevStack = <<>>
    /\ selected = NoneSelected
    /\ lastTitle = <<>>
    /\ strays = 0
    /\ head = <<>>
    /\ raw = <<>>
    /\ title = <<>>
    /\ once = <<>>
    /\ content = <<>>
    /\ again = 0
    /\ metadata = NoMetadata
    /\ toml = NewDocument
    /\ archive = NoArchive
    /\ pc = "idle"
    /\ outputs = {}
    /\ index = 0
    /\ reading = {}
    /\ opened = <<>>
    /\ consumed = {}
    /\ vec = <<>>
    /\ available = <<>>
    /\ failure = "none"
    /\ failedAt = 0

\* process.rs Epub::from_file, from the descriptor on
FromFile ==
    /\ op = "idle"
    /\ \E path \in OpfPaths, its \in ItemSeqs, refs \in RefSeqs :
        /\ opf_path' = path
        /\ items' = its
        /\ itemrefs' = refs
        /\ IF FromOpfOk(its, refs)
           THEN /\ error' = "none"
                /\ hrefs' = into_hrefs(refs, into_map(its))
                /\ chapters' = FromFileChapters(path, its, refs)
           ELSE /\ error' = "MalformedXml"
                /\ hrefs' = <<>>
                /\ chapters' = <<>>
    /\ op' = "from_file"
    /\ UNCHANGED <<pathVars, locVars, extVars, chapVars>>
    /\ UNCHANGED <<metaVars, runVars>>

\* opf.rs parse_opf: returns the hrefs as its chapter paths, or the error
ParseOpf ==
    /\ op = "idle"
    /\ \E path \in OpfPaths, its \in ItemSeqs, refs \in RefSeqs :
        LET r == parse_opf(its, refs)
        IN  /\ opf_path' = path
            /\ items' = its
            /\ itemrefs' = refs
            /\ error' = r.err
            /\ hrefs' = r.paths
            /\ chapters' = r.paths
    /\ op' = "parse_opf"
    /\ UNCHANGED <<pathVars, locVars, extVars, chapVars>>
    /\ UNCHANGED <<metaVars, runVars>>

\* chapter.rs href2path on the hrefs parse_opf returned
Href2Path ==
    /\ op = "parse_opf"
    /\ error = "none"
    /\ chapters' = href2path(hrefs, opf_path)
    /\ op' = "href2path"
    /\ UNCHANGED <<opf_path, items, itemrefs, hrefs, error>>
    /\ UNCHANGED <<pathVars, locVars, extVars, chapVars>>
    /\ UNCHANGED <<metaVars, runVars>>

\* main.rs parse_opf followed by get_chapter_files
MainChapterFiles ==
    /\ op = "idle"
    /\ \E its \in ItemSeqs, refs \in RefSeqs :
        /\ items' = its
        /\ itemrefs' = refs
        /\ hrefs' = <<>>
        /\ chapters' = get_chapter_files(parse_spine(refs), parse_manifest(its))
    /\ opf_path' = <<"OEBPS", "content.opf">>
    /\ error' = "none"
    /\ op' = "main"
    /\ UNCHANGED <<pathVars, locVars, extVars, chapVars>>
    /\ UNCHANGED <<metaVars, runVars>>

\* utils.rs normalize_zip_path on one reference
ResolveZip ==
    /\ op = "idle"
    /\ \E path \in OpfPaths, r \in Rels :
        /\ opf_path' = path
        /\ rel' = r
        /\ resolved' = normalize_zip_path(path, r)
    /\ op' = "normalize_zip_path"
    /\ UNCHANGED <<items, itemrefs, hrefs, chapters, error>>
    /\ UNCHANGED <<locVars, extVars, chapVars>>
    /\ UNCHANGED <<metaVars, runVars>>

\* chapter.rs href2path on one reference
ResolveHref ==
    /\ op = "idle"
    /\ \E path \in OpfPaths, r \in Rels :
        /\ opf_path' = path
        /\ rel' = r
        /\ resolved' = href2path(<<r>>, path)[1]
    /\ op' = "normalize_path"
    /\ UNCHANGED <<items, itemrefs, hrefs, chapters, error>>
    /\ UNCHANGED <<locVars, extVars, chapVars>>
    /\ UNCHANGED <<metaVars, runVars>>

\* process.rs Epub::extract_opf_path
ExtractOpfPath ==
    /\ op = "idle"
    /\ \E evs \in EventSeqs :
        /\ container' = evs
        /\ located' = extract_opf_path(evs)
    /\ op' = "extract_opf_path"
    /\ UNCHANGED <<pkgVars, pathVars, extVars, chapVars>>
    /\ UNCHANGED <<metaVars, runVars>>

\* opf.rs get_opf_path
GetOpfPath ==
    /\ op = "idle"
    /\ \E evs \in EventSeqs :
        /\ container' = evs
        /\ located' = get_opf_path(evs)
    /\ op' = "get_opf_path"
    /\ UNCHANGED <<pkgVars, pathVars, extVars, chapVars>>
    /\ UNCHANGED <<metaVars, runVars>>

\* chapter.rs extract_text: the walk starts at <body> itself
ExtractText ==
    /\ op = "idle"
    /\ op' = "extract_text"
    /\ stack' = <<"body">>
    /\ text' = ElementText("body")
    /\ prevText' = <<>>
    /\ lastNode' = [kind |-> "open", tag |-> "body", text |-> <<>>]
    /\ visited' = 1
    /\ prevStack' = <<>>
    /\ selected' = NoneSelected
    /\ lastTitle' = <<>>
    /\ strays' = 0
    /\ UNCHANGED <<pkgVars, pathVars, locVars, chapVars>>
    /\ UNCHANGED <<metaVars, runVars>>

\* extract_text_from_node: the next descendant is an element
VisitElement ==
    /\ op = "extract_text"
    /\ visited < MaxNodes
    /\ Len(stack) < MaxDepth
    /\ \E tag \in Tags :
        /\ stack' = Append(stack, tag)
        /\ text' = text \o ElementText(tag)
        /\ lastNode' = [kind |-> "open", tag |-> tag, text |-> <<>>]
        /\ selected' = SelectOpen(selected, tag, Len(stack) + 1)
    /\ prevText' = text
    /\ visited' = visited + 1
    /\ prevStack' = stack
    /\ UNCHANGED <<op, lastTitle, strays, pkgVars, pathVars, locVars, chapVars>>
    /\ UNCHANGED <<metaVars, runVars>>

\* extract_text_from_node: the next descendant is a text node
VisitText ==
    /\ op = "extract_text"
    /\ visited < MaxNodes
    /\ \E t \in Texts :
        /\ text' = text \o TextContent(stack, t)
        /\ lastNode' = [kind |-> "text", tag |-> Last(stack), text |-> t]
        /\ selected' = SelectText(selected, t)
        /\ lastTitle' = IF Last(stack) \in TitleTags THEN t ELSE lastTitle
    /\ prevText' = text
    /\ visited' = visited + 1
    /\ prevStack' = stack
    /\ UNCHANGED <<op, stack, strays, pkgVars, pathVars, locVars, chapVars>>
    /\ UNCHANGED <<metaVars, runVars>>

\* extract_text_from_node: the walk leaves the innermost open element
LeaveElement ==
    /\ op = "extract_text"
    /\ Len(stack) > 1
    /\ stack' = Front(stack)
    /\ lastNode' = [kind |-> "close", tag |-> Last(stack), text |-> <<>>]
    /\ prevText' = text
    /\ prevStack' = stack
    /\ selected' = SelectClose(selected, Len(stack))
    /\ UNCHANGED <<op, text, visited, lastTitle, strays, pkgVars, pathVars, locVars, chapVars>>
    /\ UNCHANGED <<metaVars, runVars>>

\* a parser that rejects a close tag whose name no open element has
StrayCloseRejected ==
    /\ op = "extract_text"
    /\ strays < MaxStrays
    /\ \E tag \in StrayTags :
        /\ \A i \in 1..Len(stack) : stack[i] # tag
        /\ lastNode' = [kind |-> "stray", tag |-> tag, text |-> <<>>]
    /\ prevText' = text
    /\ prevStack' = stack
    /\ strays' = strays + 1
    /\ error' = "MismatchedTag"
    /\ UNCHANGED <<op, stack, text, visited, selected, lastTitle>>
    /\ UNCHANGED <<opf_path, items, itemrefs, hrefs, chapters>>
    /\ UNCHANGED <<pathVars, locVars, chapVars>>
    /\ UNCHANGED <<metaVars, runVars>>

\* kuchiki::parse_html on a close tag whose name no open element has: the
\* parser ignores the tag, the tree and the walk over it are as without it
StrayClose ==
    /\ op = "extract_text"
    /\ strays < MaxStrays
    /\ \E tag \in StrayTags :
        /\ \A i \in 1..Len(stack) : stack[i] # tag
        /\ lastNode' = [kind |-> "stray", tag |-> tag, text |-> <<>>]
    /\ prevText' = text
    /\ prevStack' = stack
    /\ strays' = strays + 1
    /\ UNCHANGED <<op, stack, text, visited, selected, lastTitle>>
    /\ UNCHANGED <<pkgVars, pathVars, locVars, chapVars>>
    /\ UNCHANGED <<metaVars, runVars>>

\* chapter.rs Chapter::create, from the text of the entry on: the document
\* ends here
Create ==
    /\ op = "extract_text"
    /\ \E h \in HeadTitles :
        /\ head' = h
        /\ title' = extract_title(h, selected)
        /\ once' = remove_original_title(text, extract_title(h, selected))
    /\ content' = once'
    /\ raw' = text
    /\ again' = 1
    /\ op' = "create"
    /\ UNCHANGED <<pkgVars, pathVars, locVars, extVars>>
    /\ UNCHANGED <<metaVars, runVars>>

\* chapter.rs remove_original_title on one text and one title
RemoveOriginalTitle ==
    /\ op = "idle"
    /\ \E t \in RawTexts, ttl \in Titles :
        /\ raw' = t
        /\ title' = ttl
        /\ once' = remove_original_title(t, ttl)
    /\ content' = once'
    /\ again' = 1
    /\ op' = "remove_original_title"
    /\ UNCHANGED <<head, pkgVars, pathVars, locVars, extVars>>
    /\ UNCHANGED <<metaVars, runVars>>

\* remove_original_title once more, on what it returned
RemoveAgain ==
    /\ op \in {"create", "remove_original_title"}
    /\ again < MaxCalls
    /\ content' = remove_original_title(content, title)
    /\ again' = again + 1
    /\ UNCHANGED <<op, head, raw, title, once, pkgVars, pathVars, locVars, extVars>>
    /\ UNCHANGED <<metaVars, runVars>>

\* the variables an action outside the runs leaves alone
otherVars == <<pkgVars, pathVars, locVars, extVars, chapVars>>

\* metadata.rs Metadata::write
MetadataWrite ==
    /\ op = "idle"
    /\ \E md \in Metadatas :
        /\ metadata' = md
        /\ toml' = metadata_write(md)
    /\ op' = "metadata_write"
    /\ UNCHANGED <<otherVars, runVars>>

\* main.rs main, lines 13-15: the output directory is created first
MainRun ==
    /\ op = "idle"
    /\ \E a \in Archives : archive' = a
    /\ outputs' = {"output_dir"}
    /\ pc' = "parse_opf"
    /\ op' = "main_rs"
    /\ UNCHANGED <<index, reading, opened, consumed, vec, available, failure, failedAt>>
    /\ UNCHANGED <<otherVars, metaVars>>

\* main.rs main, lines 22-27: open_epub, parse_opf, File::create of the
\* combined file
MainParseOpf ==
    /\ op = "main_rs"
    /\ pc = "parse_opf"
    /\ IF archive.descriptor = "ok"
       THEN /\ outputs' = outputs \cup {"total.txt"}
            /\ index' = 1
            /\ pc' = "process_chapters"
            /\ UNCHANGED failure
       ELSE /\ failure' = ErrorOf(archive.descriptor)
            /\ pc' = "done"
            /\ UNCHANGED <<outputs, index>>
    /\ UNCHANGED <<op, archive, reading, opened, consumed, vec, available, failedAt>>
    /\ UNCHANGED <<otherVars, metaVars>>

\* main.rs process_chapters: one turn of the loop, or its end
ProcessChapters ==
    /\ op = "main_rs"
    /\ pc = "process_chapters"
    /\ IF index > Len(archive.entries)
       THEN /\ pc' = "done"
            /\ UNCHANGED <<index, opened, consumed, available, failure, failedAt>>
       ELSE IF archive.entries[index] = "ok"
       THEN /\ opened' = Append(opened, index)
            /\ consumed' = consumed \cup {index}
            /\ available' = Append(available, index)
            /\ index' = index + 1
            /\ UNCHANGED <<pc, failure, failedAt>>
       ELSE /\ opened' = IF archive.entries[index] = "bad"
                         THEN Append(opened, index) ELSE opened
            /\ failure' = "Chapter"
            /\ failedAt' = index
            /\ pc' = "done"
            /\ UNCHANGED <<index, consumed, available>>
    /\ UNCHANGED <<op, archive, outputs, reading, vec>>
    /\ UNCHANGED <<otherVars, metaVars>>

\* process.rs Epub::from_file: the bootstrap file, then the descriptor
EpubFromFile ==
    /\ op = "idle"
    /\ \E a \in Archives :
        /\ archive' = a
        /\ IF a.bootstrap # "ok"
           THEN failure' = ErrorOf(a.bootstrap) /\ pc' = "done"
           ELSE IF a.descriptor # "ok"
           THEN failure' = ErrorOf(a.descriptor) /\ pc' = "done"
           ELSE failure' = "none" /\ pc' = "write"
    /\ op' = "epub"
    /\ UNCHANGED <<outputs, index, reading, opened, consumed, vec, available, failedAt>>
    /\ UNCHANGED <<otherVars, metaVars>>

\* process.rs Epub::write, up to the loop over the chapters
EpubWrite ==
    /\ op = "epub"
    /\ pc = "write"
    /\ \E meta, split, combine \in BOOLEAN :
        /\ outputs' = WriteOutputs(meta, split, combine)
        /\ pc' = IF split \/ combine THEN "chapters" ELSE "done"
    /\ index' = 1
    /\ UNCHANGED <<op, archive, reading, opened, consumed, vec, available, failure, failedAt>>
    /\ UNCHANGED <<otherVars, metaVars>>

\* process.rs Epub::write: one turn of the loop over the chapters, or its end
EpubWriteChapter ==
    /\ op = "epub"
    /\ pc = "chapters"
    /\ IF index > Len(archive.entries)
       THEN /\ pc' = "done"
            /\ UNCHANGED <<index, available, failure, failedAt>>
       ELSE IF archive.entries[index] = "ok"
       THEN /\ available' = Append(available, index)
            /\ index' = index + 1
            /\ UNCHANGED <<pc, failure, failedAt>>
       ELSE /\ failure' = "Chapter"
            /\ failedAt' = index
            /\ pc' = "done"
            /\ UNCHANGED <<index, available>>
    /\ UNCHANGED <<op, archive, outputs, reading, opened, consumed, vec>>
    /\ UNCHANGED <<otherVars, metaVars>>

\* chapter.rs Chapter::create_chapters is called on an archive
CreateChapters ==
    /\ op = "idle"
    /\ \E a \in Archives :
        /\ a.bootstrap = "ok"
        /\ a.descriptor = "ok"
        /\ archive' = a
    /\ index' = 1
    /\ pc' = "loop"
    /\ op' = "create_chapters"
    /\ UNCHANGED <<outputs, reading, opened, consumed, vec, available, failure, failedAt>>
    /\ UNCHANGED <<otherVars, metaVars>>

\* chapter.rs read_chapter_content: archive.by_name(chapter_file)?
OpenEntry ==
    /\ op = "create_chapters"
    /\ pc = "loop"
    /\ index <= Len(archive.entries)
    /\ IF archive.entries[index] = "missing"
       THEN /\ failure' = "Chapter"
            /\ failedAt' = index
            /\ vec' = <<>>
            /\ pc' = "done"
            /\ UNCHANGED <<reading, opened>>
       ELSE /\ reading' = reading \cup {index}
            /\ opened' = Append(opened, index)
            /\ pc' = "read"
            /\ UNCHANGED <<failure, failedAt, vec>>
    /\ UNCHANGED <<op, archive, outputs, index, consumed, available>>
    /\ UNCHANGED <<otherVars, metaVars>>

\* a read that leaves the entry open
ReadEntryLeftOpen ==
    /\ op = "create_chapters"
    /\ pc = "read"
    /\ IF archive.entries[index] = "bad"
       THEN /\ failure' = "Chapter"
            /\ failedAt' = index
            /\ vec' = <<>>
            /\ pc' = "done"
            /\ UNCHANGED <<consumed, index>>
       ELSE /\ consumed' = consumed \cup {index}
            /\ vec' = Append(vec, index)
            /\ index' = index + 1
            /\ pc' = "loop"
            /\ UNCHANGED <<failure, failedAt>>
    /\ UNCHANGED <<op, archive, outputs, reading, opened, available>>
    /\ UNCHANGED <<otherVars, metaVars>>

\* chapter.rs read_chapter_content: read_to_string to the end of the entry,
\* the entry is closed on return; then the rest of Chapter::create and the push
ReadEntry ==
    /\ op = "create_chapters"
    /\ pc = "read"
    /\ reading' = reading \ {index}
    /\ IF archive.entries[index] = "bad"
       THEN /\ failure' = "Chapter"
            /\ failedAt' = index
            /\ vec' = <<>>
            /\ pc' = "done"
            /\ UNCHANGED <<consumed, index>>
       ELSE /\ consumed' = consumed \cup {index}
            /\ vec' = Append(vec, index)
            /\ index' = index + 1
            /\ pc' = "loop"
            /\ UNCHANGED <<failure, failedAt>>
    /\ UNCHANGED <<op, archive, outputs, opened, available>>
    /\ UNCHANGED <<otherVars, metaVars>>

\* chapter.rs Chapter::create_chapters: Ok(chapters) at the end of the list
ReturnChapters ==
    /\ op = "create_chapters"
    /\ pc = "loop"
    /\ index > Len(archive.entries)
    /\ available' = vec
    /\ pc' = "done"
    /\ UNCHANGED <<op, archive, outputs, index, reading, opened, consumed, vec, failure, failedAt>>
    /\ UNCHANGED <<otherVars, metaVars>>

Next ==
    \/ FromFile
    \/ ParseOpf
    \/ Href2Path
    \/ MainChapterFiles
    \/ ResolveZip
    \/ ResolveHref
    \/ ExtractOpfPath
    \/ GetOpfPath
    \/ ExtractText
    \/ VisitElement
    \/ VisitText
    \/ LeaveElement
    \/ StrayClose
    \/ Create
    \/ RemoveOriginalTitle
    \/ RemoveAgain
    \/ MetadataWrite
    \/ MainRun
    \/ MainParseOpf
    \/ ProcessChapters
    \/ EpubFromFile
    \/ EpubWrite
    \/ EpubWriteChapter
    \/ CreateChapters
    \/ OpenEntry
    \/ ReadEntry
    \/ ReturnChapters

Spec == Init /\ [][Next]_vars

----------------------------------------------------------------------------
(* Vocabulary of the properties. *)

Parsed == op \in {"from_file", "parse_opf", "href2path"}

Listed == Parsed \/ op = "main"

Located == op \in {"extract_opf_path", "get_opf_path"}

Resolved == op \in {"normalize_zip_path", "normalize_path"}

\* the chapter path the current operation makes of a manifest href
PathOf(href) ==
    CASE op = "from_file" -> normalize_zip_path(opf_path, href)
      [] op = "href2path" -> href2path1(opf_path, href)
      [] op = "main" -> OebpsPath(href)
      [] OTHER -> href

\* the manifest item a chapter path comes from (hrefs are pairwise different)
ComesFrom(path, j) == path = PathOf(items[j].href)

\* a spine id that survives the spine filter and has no surviving manifest item
MissingRef(i) ==
    /\ KeepIdref(itemrefs[i])
    /\ \A j \in 1..Len(items) : ~(KeepItem(items[j]) /\ items[j].id = itemrefs[i])

\* the positions of the chapter list whose path comes from an item with this id
SlotsOf(id) ==
    {k \in 1..Len(chapters) :
        \E j \in 1..Len(items) : items[j].id = id /\ ComesFrom(chapters[k], j)}

Names == Pieces \ {"..", ".", ""}

\* the event at position i is a rootfile nested in a rootfiles element
Nested(i) ==
    /\ container[i].kind = "rootfile"
    /\ \E s \in 1..(i - 1) :
        /\ container[s].kind = "rootfiles"
        /\ \A e \in (s + 1)..(i - 1) : container[e].kind # "end_rootfiles"

\* the event at position i is a nested rootfile carrying a full-path
NestedWithPath(i) == Nested(i) /\ container[i].fp # "none"

NoTokenizerError == \A i \in 1..Len(container) : container[i].kind # "error"

----------------------------------------------------------------------------
(* Properties. *)

\* C1: whenever a spine id that survives the spine filter has no entry in the
\* filtered manifest, package parsing returns MissingChapterReference and no
\* chapter-path list; the id is never silently skipped.
C1_MissingReferenceRejected ==
    (Parsed /\ error # "MalformedXml" /\ \E i \in 1..Len(itemrefs) : MissingRef(i))
        => (error = "MissingChapterReference" /\ chapters = <<>>)

\* C2: spine resolution consumes a manifest entry at most once: however often
\* an id occurs in the spine, at most one chapter path is produced for it.
C2_AtMostOncePerId ==
    (Listed /\ error = "none") => \A id \in Ids : Cardinality(SlotsOf(id)) <= 1

\* C3: a `..` component removes the last component of a non-empty result, also
\* when the base directory has exactly one component: "../Images/x.jpg"
\* against base "OEBPS" yields "Images/x.jpg".
C3_ParentDirPopsSingleBase ==
    (/\ Resolved
     /\ Len(opf_path) = 2
     /\ Len(rel) >= 2
     /\ rel[1] = ".."
     /\ \A i \in 2..Len(rel) : rel[i] \in Names)
        => resolved = Tail(rel)

\* C4: a `..` component met while the result is empty is pushed onto the
\* result as a marker; it is not dropped.
C4_ParentDirAtEmptyIsMarker ==
    (Resolved /\ Len(opf_path) = 1 /\ rel[1] = "..") => resolved[1] = ".."

\* C5: no chapter path produced by package parsing has a `.` or a `..`
\* component.
C5_NoDotComponents ==
    (op \in {"from_file", "href2path"} /\ error = "none")
        => \A k \in 1..Len(chapters) :
             \A i \in 1..Len(chapters[k]) : chapters[k][i] \notin {".", ".."}

\* C6: every chapter path returned by package parsing comes from a manifest
\* item whose media-type is XHTML and whose id does not contain "cover".
C6_ChaptersFromKeptItems ==
    (Parsed /\ error = "none")
        => \A k \in 1..Len(chapters) :
             \E j \in 1..Len(items) : KeepItem(items[j]) /\ ComesFrom(chapters[k], j)

\* C7: a spine itemref whose idref contains "nav" or "cover" is dropped before
\* resolution: it yields no chapter path and causes no missing-reference error.
C7_NavCoverRefsDropped ==
    Listed =>
        /\ \A k \in 1..Len(chapters) : \A j \in 1..Len(items) :
             ComesFrom(chapters[k], j) => KeepIdref(items[j].id)
        /\ error = "MissingChapterReference"
             => \E i \in 1..Len(itemrefs) : MissingRef(i)

\* C8: the package locator returns the full-path of the first rootfile nested
\* inside a rootfiles element: a later rootfile never overrides it and a
\* rootfile outside rootfiles is never used.
C8_FirstNestedRootfile ==
    (Located /\ located.kind = "path")
        => \E i \in 1..Len(container) :
             /\ NestedWithPath(i)
             /\ \A h \in 1..(i - 1) : ~NestedWithPath(h)
             /\ located.path = container[i].fp

\* C9: the package locator returns descriptor-not-found, and never a path,
\* exactly when the end of container.xml is reached without a rootfile
\* carrying a full-path; a tokenizer failure is a distinct malformed-XML error.
\* (Stated for the reading both locators can meet: a nested rootfile with a
\* full-path and no tokenizer error rule out not-found; not-found and a path
\* are never answered after a tokenizer error that precedes every rootfile.)
C9_NotFoundOnlyWithoutRootfile ==
    Located =>
        /\ located.kind = "not_found"
             => /\ NoTokenizerError
                /\ \A i \in 1..Len(container) : ~NestedWithPath(i)
        /\ located.kind = "path"
             => \E i \in 1..Len(container) :
                  container[i].kind = "rootfile" /\ container[i].fp = located.path
        /\ located.kind = "malformed" => ~NoTokenizerError

\* C10: text inside a block-tag or inline-tag is appended verbatim, and one
\* newline is appended when, and only when, a block-tag closes: never when a
\* tag opens and never for an inline-tag.
C10_NewlineOnlyOnBlockClose ==
    op = "extract_text" =>
        /\ lastNode.kind = "open" => text = prevText
        /\ lastNode.kind = "close"
             => text = prevText \o (IF lastNode.tag \in BlockTags
                                    THEN <<"\n">> ELSE <<>>)
        /\ (lastNode.kind = "text" /\ lastNode.tag \in BlockTags \cup InlineTags)
             => text = prevText \o lastNode.text

\* the title the extractor is to return: the text of the last text token whose
\* innermost open tag is a title-tag (the <title> of the head comes first in
\* the document), empty if there is none
ClaimedTitle == IF lastTitle # <<>> THEN lastTitle ELSE head

\* C11: the title of a chapter is the text of the last title-tag text token of
\* the document (compared up to surrounding whitespace), and empty when the
\* document has no such token.
C11_LastTitleTokenWins ==
    op = "create" => Trim(title) = Trim(ClaimedTitle)

\* C12: a text token whose innermost open tag is in none of the three
\* classifier sets adds nothing to the content.
C12_UnclassifiedTextDropped ==
    (/\ op = "extract_text"
     /\ lastNode.kind = "text"
     /\ lastNode.tag \notin TitleTags \cup BlockTags \cup InlineTags)
        => text = prevText

LeadingTitle(t) == title # <<>> /\ MatchStarts(t, title) # {}

\* C14 as stated: a second title stripping of the result changes nothing.
C14_StripIdempotent ==
    again = 2 => content = once

\* C14 amended: a second title stripping of the result changes nothing exactly
\* when the result of the first does not itself begin with the title; when the
\* text began with the title twice, the second call removes the second one.
C14_StripIdempotentUnlessRepeated ==
    again = 2 => (content = once <=> ~LeadingTitle(once))

\* the first call removed the leading title and the second changed nothing
C14_Witness ==
    /\ again = 2
    /\ LeadingTitle(raw)
    /\ ~LeadingTitle(once)
    /\ content = once
    /\ once # <<>>

\* the positions (atoms before it) at which the title occurs in a text
Occurrences(t) == {k \in 0..Len(t) : StartsAt(t, title, k)}

\* the position of the leading occurrence of the title, -1 if there is none
LeadingAt(t) ==
    IF MatchStarts(t, title) = {} THEN -1
    ELSE CHOOSE m \in MatchStarts(t, title) : \A n \in MatchStarts(t, title) : n <= m

\* the number of atoms the first call cut off the front of the text
Cut == Len(raw) - Len(once)

\* the first call returned the text without a part of its front
CutFront == Cut >= 0 /\ once = SubSeq(raw, Cut + 1, Len(raw))

\* C15 as stated: title stripping removes the leading occurrence only; every
\* other occurrence of the title in the text is unchanged in the result.
C15_OtherOccurrencesKept ==
    (again >= 1 /\ title # <<>>)
        => /\ CutFront
           /\ \A k \in Occurrences(raw) : k = LeadingAt(raw) \/ k >= Cut

\* C15 amended: title stripping cuts off the front of the text its leading
\* whitespace, at most one occurrence of the title and the whitespace after
\* it, and nothing else: every occurrence of the title that starts after the
\* part cut off is unchanged in the result (one that overlaps the leading
\* occurrence is cut).
C15_OnlyLeadingPartCut ==
    again >= 1
        => /\ CutFront
           /\ Trim(SubSeq(raw, 1, Cut)) \in {<<>>, title}
           /\ \A k \in Occurrences(raw) :
                k >= Cut => StartsAt(once, title, k - Cut)

\* the leading title was cut and a later occurrence of it is still there
C15_Witness ==
    /\ again = 1
    /\ title # <<>>
    /\ LeadingTitle(raw)
    /\ \E k \in Occurrences(raw) : k >= Cut /\ StartsAt(once, title, k - Cut)

\* the labels the creators are written under
CreatorLabels == {"author", "editor", "translator", "illustrator", "unknown"}

\* the label the serialization writes a creator under
LabelOf(creator) ==
    IF creator.role = <<>> THEN "author" ELSE role_key(creator.role[1])

\* the positions of the creators written under a label
WritersOf(label) ==
    {i \in 1..Len(metadata.creators) : LabelOf(metadata.creators[i]) = label}

\* C16: metadata serialization is last-writer-wins per label: the value under
\* a label is the name of the last creator, in document order, that maps to
\* the label; the label is absent when no creator maps to it.
C16_LastWriterWins ==
    op = "metadata_write" =>
        \A label \in CreatorLabels :
            IF WritersOf(label) = {} THEN toml[label] = <<>>
            ELSE \E i \in WritersOf(label) :
                    /\ \A j \in WritersOf(label) : j <= i
                    /\ toml[label] = <<metadata.creators[i].name>>

\* a creator with role aut, then one without a role and with another name:
\* the second name stands under author and the first is lost
C16_Witness ==
    /\ op = "metadata_write"
    /\ Len(metadata.creators) = 2
    /\ metadata.creators[1] = [name |-> "Ann", role |-> <<"aut">>]
    /\ metadata.creators[2] = [name |-> "Bob", role |-> <<>>]
    /\ toml["author"] = <<"Bob">>
    /\ \A label \in CreatorLabels : toml[label] # <<"Ann">>

\* the label the role mapper is to give a role code
ClaimedLabel(role) ==
    CASE role = <<>> -> "author"
      [] role = <<"aut">> -> "author"
      [] role = <<"edt">> -> "editor"
      [] role = <<"trl">> -> "translator"
      [] role = <<"ill">> -> "illustrator"
      [] OTHER -> "unknown"

\* C17: the role mapper sends aut to author, edt to editor, trl to translator,
\* ill to illustrator, every other role code to "unknown" and a creator with
\* no role code to "author": each creator's label is written, and each label
\* written holds the name of a creator with that label.
C17_RoleLabels ==
    op = "metadata_write" =>
        /\ \A i \in 1..Len(metadata.creators) :
             toml[ClaimedLabel(metadata.creators[i].role)] # <<>>
        /\ \A label \in CreatorLabels :
             toml[label] # <<>> =>
                \E i \in 1..Len(metadata.creators) :
                    /\ ClaimedLabel(metadata.creators[i].role) = label
                    /\ toml[label] = <<metadata.creators[i].name>>

\* a creator with an unmapped role code and a translator
C17_Witness ==
    /\ op = "metadata_write"
    /\ Len(metadata.creators) = 2
    /\ metadata.creators[1] = [name |-> "Ann", role |-> <<"bkp">>]
    /\ metadata.creators[2] = [name |-> "Bob", role |-> <<"trl">>]
    /\ toml["unknown"] = <<"Ann">>
    /\ toml["translator"] = <<"Bob">>
    /\ toml["author"] = <<>>

\* C18: when the bootstrap file or the package descriptor cannot be found or
\* parsed, the run ends in an error and has created no output directory, no
\* chapter file, no combined file and no metadata file.
C18_NoPartialOutput ==
    (op \in {"main_rs", "epub"} /\ failure \in {"DescriptorNotFound", "MalformedXml"})
        => (outputs = {} /\ available = <<>>)

\* the chapters 1..n in order
UpTo(n) == [i \in 1..n |-> i]

\* C19: when the extraction of chapter k fails, the chapters before k are
\* available to the caller.
C19_EarlierChaptersAvailable ==
    failure = "Chapter" => available = UpTo(failedAt - 1)

\* C20: the entries are opened in chapter-path-list order, an entry is opened
\* only after every entry opened before it was read to its end, and at most
\* one entry is open at a time.
C20_OneEntryAtATime ==
    op = "create_chapters" =>
        /\ opened = UpTo(Len(opened))
        /\ \A i \in 1..(Len(opened) - 1) : i \in consumed
        /\ Cardinality(reading) <= 1
        /\ reading \subseteq {Len(opened)}

\* the second entry is open and being read, the first was read to its end
C20_Witness ==
    /\ op = "create_chapters"
    /\ opened = <<1, 2>>
    /\ reading = {2}
    /\ 1 \in consumed

\* the spine occurrence i can have produced the chapter path k: the path is
\* the resolution of the href of a manifest item with the id of that itemref
\* (parse_opf returns the hrefs themselves, href2path resolves them after)
Produces(i, k) ==
    \E j \in 1..Len(items) :
        items[j].id = itemrefs[i] /\ ComesFrom(chapters[k], j)

\* the chapter paths from k on are produced, in order, by spine occurrences
\* from i on
RECURSIVE InSpineOrder(_, _)
InSpineOrder(k, i) ==
    IF k > Len(chapters) THEN TRUE
    ELSE IF i > Len(itemrefs) THEN FALSE
    ELSE (Produces(i, k) /\ InSpineOrder(k + 1, i + 1)) \/ InSpineOrder(k, i + 1)

C22_UnchangedWithoutLeadingTitle ==
    (again = 1 /\ MatchStarts(raw, title) = {}) => once = raw

====
